---- MODULE Spec2Model ----
(***************************************************************************)
(* Model of the transcript service: the primary endpoint                   *)
(* (src/backend/api/transcript.js, two versions of the file) and the       *)
(* backup endpoint (src/backend/api/transcript-backup.js, four versions).  *)
(*                                                                         *)
(* One Node.js process serves one deployed handler.  Requests interleave   *)
(* at their awaits; everything a handler does between two awaits is one    *)
(* atomic step.  The module-level array extractionLog is process state.    *)
(***************************************************************************)
EXTENDS Integers, Sequences, FiniteSets, TLC

VARIABLES
    module,         \* which version of which file is deployed in this process
    extractionLog,  \* transcript.js: const extractionLog = []
    pc,             \* per connection: "idle" | "ready" | "await" | "responded"
    req,            \* per connection: the request being handled
    calls,          \* per connection: instrumentation, one record per strategy call
    resp,           \* per connection: the response sent
    served,         \* number of requests received so far by the process
    client,         \* transcript-backup.js: let client = null, and its construction
    fn,             \* a function of the service applied to an input, and its result
    previous        \* instrumentation: the first extraction the process answered

vars == <<module, extractionLog, pc, req, calls, resp, served, client, fn, previous>>

\* the state of the handlers
handlerVars == <<extractionLog, pc, req, calls, resp, served, client, previous>>

-----------------------------------------------------------------------------
(* Bounds and program constants *)

\* total number of requests the process receives in a behaviour
MaxRequests == 3

\* the 50-character floor of a usable transcript
MinTranscriptLen == 50

\* the connections that can be open at once
Conns == {"c1", "c2"}

\* JavaScript undefined / a field that is not present
Nil == "undefined"

Modules == {"transcript.v1", "transcript.v2",
            "backup.direct", "backup.innertube", "backup.ytapi", "backup.caption"}

IsPrimary(m) == m \in {"transcript.v1", "transcript.v2"}

-----------------------------------------------------------------------------
(* Values *)

\* an error message or a log detail: the text and the number interpolated in it
Detail(m, k) == [msg |-> m, n |-> k]
NoDetail == Detail(Nil, 0)

\* what a strategy returns: a result object, or null
Result(len, src) == [isNull |-> FALSE, transcriptLen |-> len, source |-> src]
Null == [isNull |-> TRUE, transcriptLen |-> 0, source |-> Nil]

\* what an upstream (YouTube, a library) does when a strategy calls it:
\* the point where it fails, or the length of the transcript its segments join to
Up(k, len) == [kind |-> k, len |-> len]

\* transcript lengths the upstreams deliver: empty, just under and at the floor
Lens == {0, MinTranscriptLen - 1, MinTranscriptLen}

Strategies == {"DataAPI", "TranscriptPlus", "CaptionExtractor",
               "YoutubeTranscript", "InnertubeAPI"}

\* the failure points of each strategy, in the order of its code
FailKinds(s) ==
    CASE s = "DataAPI" ->
            {"rejects", "api_non2xx", "no_items", "watch_non2xx", "no_player_response",
             "bad_player_json", "no_tracks", "caption_non2xx"}
      [] s = "InnertubeAPI" ->
            {"rejects", "player_non2xx", "no_tracks", "caption_non2xx"}
      [] OTHER -> {"rejects", "no_segments"}

Upstreams(s) == {Up(k, 0) : k \in FailKinds(s)} \cup {Up("segments", l) : l \in Lens}

\* the upstream behaviours drawn when requests run concurrently:
\* a transcript just under the floor, a transcript at the floor
CoarseUpstreams(s) ==
    {Up("segments", MinTranscriptLen - 1), Up("segments", MinTranscriptLen)}

Menu(full, s) == IF full THEN Upstreams(s) ELSE CoarseUpstreams(s)

-----------------------------------------------------------------------------
(* transcript.js: the attempt log *)

\* logAttempt pushes {method, success, details, timestamp}; the timestamp is
\* modelled by the serial number of the request the push was made for
logAttempt(log, id, method, success, details) ==
    Append(log, [method |-> method, success |-> success, details |-> details, req |-> id])

\* the outcome of a strategy's try block: it threw err, or it reached its return
Threw(m, k) == [threw |-> TRUE, err |-> Detail(m, k), len |-> 0]
Reached(len) == [threw |-> FALSE, err |-> NoDetail, len |-> len]

\* try { ... logAttempt(name, true, ...); return {...} }
\* catch (error) { logAttempt(name, false, error.message); return null; }
Caught(log, id, method, source, body) ==
    IF body.threw
    THEN [log |-> logAttempt(log, id, method, FALSE, body.err),
          ret |-> Null, thrown |-> NoDetail]
    ELSE [log |-> logAttempt(log, id, method, TRUE, Detail("chars extracted", body.len)),
          ret |-> Result(body.len, source), thrown |-> NoDetail]

\* try { ... return {...} } catch (error) { console.log(...); throw error; }
Rethrown(log, id, method, source, body) ==
    IF body.threw
    THEN [log |-> log, ret |-> Null, thrown |-> body.err]
    ELSE [log |-> log, ret |-> Result(body.len, source), thrown |-> NoDetail]

extractWithYouTubeDataAPI(log, id, apiKey, up) ==
    Caught(log, id, "youtube-data-api", "youtube-data-api",
        IF apiKey = Nil THEN Threw("No API key provided", 0)
        ELSE IF up.kind = "rejects" THEN Threw("fetch failed", 0)
        ELSE IF up.kind = "api_non2xx" THEN Threw("YouTube API error: ", 403)
        ELSE IF up.kind = "no_items" THEN Threw("Video not found", 0)
        ELSE IF up.kind = "watch_non2xx" THEN Threw("Watch page fetch failed: ", 403)
        ELSE IF up.kind = "no_player_response" THEN Threw("Could not find player response", 0)
        ELSE IF up.kind = "bad_player_json" THEN Threw("Could not parse player response", 0)
        ELSE IF up.kind = "no_tracks" THEN Threw("No caption tracks in player response", 0)
        ELSE IF up.kind = "caption_non2xx" THEN Threw("Caption fetch failed: ", 403)
        ELSE IF up.len < MinTranscriptLen THEN Threw("Transcript too short: chars", up.len)
        ELSE Reached(up.len))

extractWithTranscriptPlus(log, id, up) ==
    Caught(log, id, "youtube-transcript-plus", "youtube-transcript-plus",
        IF up.kind = "rejects" THEN Threw("fetch failed", 0)
        ELSE IF up.kind = "no_segments" THEN Threw("No transcript segments found", 0)
        ELSE IF up.len < MinTranscriptLen THEN Threw("Insufficient content (chars)", up.len)
        ELSE Reached(up.len))

RethrowingCaptionExtractor(log, id, up) ==
    Rethrown(log, id, "youtube-caption-extractor", "youtube-caption-extractor",
        IF up.kind = "rejects" THEN Threw("fetch failed", 0)
        ELSE IF up.kind = "no_segments" THEN Threw("No captions found", 0)
        ELSE IF up.len < MinTranscriptLen THEN Threw("Insufficient content (chars)", up.len)
        ELSE Reached(up.len))

extractWithCaptionExtractor(log, id, up) ==
    Caught(log, id, "youtube-caption-extractor", "youtube-caption-extractor",
        IF up.kind = "rejects" THEN Threw("fetch failed", 0)
        ELSE IF up.kind = "no_segments" THEN Threw("No captions found", 0)
        ELSE IF up.len < MinTranscriptLen THEN Threw("Insufficient content (chars)", up.len)
        ELSE Reached(up.len))

extractWithYoutubeTranscript(log, id, up) ==
    Caught(log, id, "youtube-transcript", "youtube-transcript",
        IF up.kind = "rejects" THEN Threw("fetch failed", 0)
        ELSE IF up.kind = "no_segments" THEN Threw("No transcript items found", 0)
        ELSE IF up.len < MinTranscriptLen THEN Threw("Insufficient content (chars)", up.len)
        ELSE Reached(up.len))

extractWithInnertubeAPI(log, id, up) ==
    Caught(log, id, "innertube-api", "youtube-innertube-api",
        IF up.kind = "rejects" THEN Threw("fetch failed", 0)
        ELSE IF up.kind = "player_non2xx" THEN Threw("Innertube API returned ", 403)
        ELSE IF up.kind = "no_tracks" THEN Threw("No caption tracks available", 0)
        ELSE IF up.kind = "caption_non2xx" THEN Threw("Failed to fetch captions: ", 403)
        ELSE IF up.len < MinTranscriptLen THEN Threw("Insufficient content (chars)", up.len)
        ELSE Reached(up.len))

\* the method name each strategy logs under
LogName(s) ==
    CASE s = "DataAPI" -> "youtube-data-api"
      [] s = "TranscriptPlus" -> "youtube-transcript-plus"
      [] s = "CaptionExtractor" -> "youtube-caption-extractor"
      [] s = "YoutubeTranscript" -> "youtube-transcript"
      [] s = "InnertubeAPI" -> "innertube-api"

\* strategies of which one keeps state of its own across requests: a
\* youtube-caption-extractor that answers the first request of the process only
RunStrategyOnce(s, log, id, apiKey, up) ==
    CASE s = "DataAPI" -> extractWithYouTubeDataAPI(log, id, apiKey, up)
      [] s = "TranscriptPlus" -> extractWithTranscriptPlus(log, id, up)
      [] s = "CaptionExtractor" ->
            extractWithCaptionExtractor(log, id, IF id > 1 THEN Up("segments", 0) ELSE up)
      [] s = "YoutubeTranscript" -> extractWithYoutubeTranscript(log, id, up)
      [] s = "InnertubeAPI" -> extractWithInnertubeAPI(log, id, up)

RunStrategy(s, log, id, apiKey, up) ==
    CASE s = "DataAPI" -> extractWithYouTubeDataAPI(log, id, apiKey, up)
      [] s = "TranscriptPlus" -> extractWithTranscriptPlus(log, id, up)
      [] s = "CaptionExtractor" -> extractWithCaptionExtractor(log, id, up)
      [] s = "YoutubeTranscript" -> extractWithYoutubeTranscript(log, id, up)
      [] s = "InnertubeAPI" -> extractWithInnertubeAPI(log, id, up)

-----------------------------------------------------------------------------
(* transcript-backup.js: the extractors of the backup handlers.  They keep *)
(* no log and throw on failure; the handler's catch turns that into a 500. *)

BackupStrategy(m) ==
    CASE m = "backup.direct" -> "DirectFetch"
      [] m = "backup.innertube" -> "InnertubeBackup"
      [] m = "backup.ytapi" -> "TranscriptApi"
      [] m = "backup.caption" -> "CaptionOnly"

BackupSource(m) ==
    CASE m = "backup.direct" -> "youtube-direct-fetch"
      [] m = "backup.innertube" -> "youtube-innertube-api"
      [] m = "backup.ytapi" -> "youtube-transcript-api"
      [] m = "backup.caption" -> "youtube-caption-extractor"

BackupFailKinds(m) ==
    CASE m = "backup.direct" ->
            {"rejects", "page_non2xx", "no_tracks", "caption_non2xx", "no_events"}
      [] m = "backup.innertube" ->
            {"rejects", "player_non2xx", "no_tracks", "caption_non2xx"}
      [] m = "backup.ytapi" -> {"rejects", "no_tracks", "no_segments"}
      [] m = "backup.caption" -> {"rejects", "no_segments"}

BackupUpstreams(m) ==
    {Up(k, 0) : k \in BackupFailKinds(m)} \cup {Up("segments", l) : l \in Lens}

\* getCaptionTracksFromVideoPage, fetchCaptionsFromTrack, parseJson3Captions;
\* a parsed segment is never empty, so a transcript of length 0 has no segments
extractTranscriptDirect(up) ==
    IF up.kind = "rejects" THEN Threw("fetch failed", 0)
    ELSE IF up.kind = "page_non2xx" THEN Threw("Failed to fetch video page: ", 403)
    ELSE IF up.kind = "no_tracks" THEN Threw("No caption tracks found in video page", 0)
    ELSE IF up.kind = "caption_non2xx" THEN Threw("Failed to fetch captions: ", 403)
    ELSE IF up.kind = "no_events" THEN Threw("No caption events found", 0)
    ELSE IF up.len = 0 THEN Threw("No transcript segments extracted", 0)
    ELSE Reached(up.len)

\* getVideoInfoInnertube, fetchCaptions, parseXmlCaptions
extractTranscriptInnertube(up) ==
    IF up.kind = "rejects" THEN Threw("fetch failed", 0)
    ELSE IF up.kind = "player_non2xx" THEN Threw("Innertube API returned ", 403)
    ELSE IF up.kind = "no_tracks" THEN Threw("No caption tracks available for this video", 0)
    ELSE IF up.kind = "caption_non2xx" THEN Threw("Failed to fetch captions: ", 403)
    ELSE IF up.len = 0 THEN Threw("No transcript segments found", 0)
    ELSE Reached(up.len)

\* the youtube-transcript-api handler's own extraction once it has the client:
\* getTranscript, the track and segment checks; segments may carry empty text
extractWithTranscriptApi(up) ==
    IF up.kind = "rejects" THEN Threw("fetch failed", 0)
    ELSE IF up.kind = "no_tracks" THEN Threw("No transcript tracks found", 0)
    ELSE IF up.kind = "no_segments" THEN Threw("No transcript segments found", 0)
    ELSE Reached(up.len)

\* extractWithCaptionExtractor of the caption-only handler, then the handler's
\* own check of the transcript length
extractCaptionOnly(up) ==
    IF up.kind = "rejects" THEN Threw("fetch failed", 0)
    ELSE IF up.kind = "no_segments" THEN Threw("No captions found", 0)
    ELSE IF up.len = 0 \/ up.len < MinTranscriptLen THEN Threw("Transcript too short or empty", 0)
    ELSE Reached(up.len)

BackupExtract(m, up) ==
    CASE m = "backup.direct" -> extractTranscriptDirect(up)
      [] m = "backup.innertube" -> extractTranscriptInnertube(up)
      [] m = "backup.ytapi" -> extractWithTranscriptApi(up)
      [] m = "backup.caption" -> extractCaptionOnly(up)

-----------------------------------------------------------------------------
(* transcript.js: the chain driver extractTranscript *)

\* an extractTranscript that keeps the third-party libraries for the end
LibrariesLast(m, apiKey) ==
    IF m = "transcript.v2"
    THEN (IF apiKey \notin {Nil, ""} THEN <<"DataAPI">> ELSE <<>>)
         \o <<"TranscriptPlus", "InnertubeAPI", "CaptionExtractor", "YoutubeTranscript">>
    ELSE <<"InnertubeAPI", "CaptionExtractor", "YoutubeTranscript">>

\* an extractTranscript that calls the Data API strategy with or without a key
WithoutKeyTest(m, apiKey) ==
    IF m = "transcript.v2"
    THEN <<"DataAPI", "TranscriptPlus", "CaptionExtractor", "YoutubeTranscript",
           "InnertubeAPI">>
    ELSE <<"CaptionExtractor", "YoutubeTranscript", "InnertubeAPI">>

\* the strategies extractTranscript calls, in the order of its statements
Chain(m, apiKey) ==
    IF m = "transcript.v2"
    THEN (IF apiKey \notin {Nil, ""} THEN <<"DataAPI">> ELSE <<>>)
         \o <<"TranscriptPlus", "CaptionExtractor", "YoutubeTranscript", "InnertubeAPI">>
    ELSE <<"CaptionExtractor", "YoutubeTranscript", "InnertubeAPI">>

\* an extractTranscript that does not empty the log
KeepLog(log) == log

\* extractionLog.length = 0
ClearLog(log) == <<>>

\* a driver that goes on to the next strategy whatever the last one returned
ContinueAfterSuccess(ret, pos, n) ==
    IF pos < n THEN "next" ELSE IF ret.isNull THEN "throw" ELSE "return"

\* a driver that gives up at the first strategy that fails
ThrowAtFirstFailure(ret, pos, n) ==
    IF ~ret.isNull THEN "return" ELSE "throw"

\* result = await extractWith...(); if (result) return result; ... throw new Error(...)
AfterStrategy(ret, pos, n) ==
    IF ~ret.isNull THEN "return" ELSE IF pos < n THEN "next" ELSE "throw"

\* the text of an error: a message, and for the aggregate the methods and
\* details it lists
ErrorOf(d) == [msg |-> d.msg, n |-> d.n, errors |-> <<>>]
NoError == ErrorOf(NoDetail)

\* extractionLog.map(e => `${e.method}: ${e.details}`).join('; ')
AllMethodsFailed(log) ==
    [msg |-> "All extraction methods failed. Errors: ", n |-> 0,
     errors |-> [i \in 1..Len(log) |-> [method |-> log[i].method, details |-> log[i].details]]]

\* how a strategy gets at the captions: the official Data API with the key of
\* the request; a package imported from npm (youtube-caption-extractor,
\* youtube-transcript); calls of YouTube's internal player API that carry the
\* consent cookie, made by the service itself (extractWithInnertubeAPI) or
\* through the fetch hooks it hands to youtube-transcript-plus
Tier(s) ==
    CASE s = "DataAPI" -> "official"
      [] s \in {"TranscriptPlus", "InnertubeAPI"} -> "internal"
      [] s \in {"CaptionExtractor", "YoutubeTranscript"} -> "library"

\* the number each strategy has in extractTranscript, METHOD 0, 0.5, 1, 2 and
\* 3, doubled
Method(s) ==
    CASE s = "DataAPI" -> 0
      [] s = "TranscriptPlus" -> 1
      [] s = "CaptionExtractor" -> 2
      [] s = "YoutubeTranscript" -> 4
      [] s = "InnertubeAPI" -> 6

-----------------------------------------------------------------------------
(* The handlers' responses *)

Methods == {"OPTIONS", "POST", "GET"}

\* req.body: absent, or an object with or without videoId and apiKey
Body(a, v, k) == [absent |-> a, videoId |-> v, apiKey |-> k]
Bodies == {Body(TRUE, Nil, Nil)} \cup {Body(FALSE, v, k) : v \in {Nil, "", "vid"}, k \in {Nil, "key"}}

Request(id, method, body) == [id |-> id, method |-> method, body |-> body]
NoRequest == Request(0, Nil, Body(TRUE, Nil, Nil))

\* the headers of a response, as pairs of a name and a value: the three that
\* the constant corsHeaders lists and the OPTIONS branch sets one by one
corsHeaders ==
    {<<"Access-Control-Allow-Origin", "*">>,
     <<"Access-Control-Allow-Headers", "Content-Type, Authorization">>,
     <<"Access-Control-Allow-Methods", "POST, OPTIONS">>}

\* res.setHeader('Access-Control-Allow-Origin', '*'), the one header every
\* other branch sets
AllowOrigin == {<<"Access-Control-Allow-Origin", "*">>}

\* a response: the status, the headers set, and the fields of the JSON body
\* (Nil: the field is not in the body; ended: res.end() with no body; sent:
\* how many times the handler has sent a response on this res)
NoResponse ==
    [status |-> 0, cors |-> {}, ended |-> FALSE, success |-> Nil, error |-> NoError,
     message |-> Nil, hint |-> Nil, hasAttempts |-> FALSE, attempts |-> <<>>, data |-> Null,
     sent |-> 0]

RespondOptions ==
    [NoResponse EXCEPT !.status = 200, !.cors = corsHeaders, !.ended = TRUE]

RespondNotAllowed(m) ==
    [NoResponse EXCEPT !.status = 405, !.cors = AllowOrigin,
        !.error = ErrorOf(Detail("Method not allowed. Use POST.", 0)),
        !.hint = IF IsPrimary(m) THEN "Send POST request with { videoId, ... }" ELSE Nil]

RespondMissingVideoId(m) ==
    [NoResponse EXCEPT !.status = 400, !.cors = AllowOrigin,
        !.success = IF IsPrimary(m) THEN "false" ELSE Nil,
        !.error = ErrorOf(Detail("Missing required parameter: videoId", 0)),
        !.hint = IF IsPrimary(m) THEN "Provide videoId in request body" ELSE Nil]

RespondSuccess(m, ret, log) ==
    [NoResponse EXCEPT !.status = 200, !.cors = AllowOrigin,
        !.success = "true",
        !.data = IF IsPrimary(m) THEN ret ELSE Result(ret.transcriptLen, BackupSource(m)),
        !.message = "Transcript extracted",
        !.hasAttempts = IsPrimary(m),
        !.attempts = IF IsPrimary(m) THEN log ELSE <<>>]

\* catch (error) { ... res.status(500).json({... error: error.message ...}) }
RespondFailure(m, err, log) ==
    [NoResponse EXCEPT !.status = 500, !.cors = AllowOrigin,
        !.success = "false",
        !.error = err,
        !.message = "Transcript extraction failed",
        !.hint = CASE m = "transcript.v2" -> "Try providing a YouTube API key in the request body"
                   [] m \in {"transcript.v1", "backup.caption"} ->
                        "This video may not have captions available or they may be disabled."
                   [] OTHER -> "This video may not have captions available.",
        !.hasAttempts = IsPrimary(m),
        !.attempts = IF IsPrimary(m) THEN log ELSE <<>>]

\* const { videoId, ... } = req.body, with req.body undefined
DestructureError == Detail("Cannot destructure property 'videoId' of 'req.body'", 0)

-----------------------------------------------------------------------------
(* The choice of a caption track *)

\* strings whose characters matter are sequences of characters
LangEn == <<"e", "n">>
LangEnUS == <<"e", "n", "-", "U", "S">>
LangFr == <<"f", "r">>
LangFrCA == <<"f", "r", "-", "C", "A">>
LangDe == <<"d", "e">>

\* String.prototype.startsWith
StartsWith(str, prefix) ==
    Len(str) >= Len(prefix) /\ SubSeq(str, 1, Len(prefix)) = prefix

\* a caption track: its languageCode, and its kind ("asr" when the captions
\* were generated automatically, absent when a human wrote them)
Track(code, kind) == [languageCode |-> code, kind |-> kind]
Tracks == {Track(code, kind) : code \in {LangEn, LangEnUS, LangFr, LangFrCA, LangDe},
                               kind \in {Nil, "asr"}}

\* the longest list of caption tracks a video has
MaxTracks == 3

TrackLists == UNION {[1..n -> Tracks] : n \in 1..MaxTracks}

\* Array.prototype.find, as the index of the element found (0: undefined)
Find(tracks, Test(_)) ==
    LET hits == {i \in 1..Len(tracks) : Test(tracks[i])}
    IN IF hits = {} THEN 0 ELSE CHOOSE i \in hits : \A j \in hits : i <= j

\* a || b on two results of find
OrElse(a, b) == IF a # 0 THEN a ELSE b

\* extractWithYouTubeDataAPI: let selectedTrack = captionTracks.find(...)
\* and the three if (!selectedTrack) that follow
SelectTrackDataAPI(tracks, lang) ==
    LET human(t) == t.languageCode = lang /\ t.kind = Nil
        exact(t) == t.languageCode = lang
        english(t) == StartsWith(t.languageCode, LangEn)
    IN OrElse(Find(tracks, human),
              OrElse(Find(tracks, exact), OrElse(Find(tracks, english), 1)))

\* extractWithInnertubeAPI (both versions of transcript.js):
\* tracks.find(exact) || tracks.find(startsWith('en')) || tracks[0]
SelectTrackInnertube(tracks, lang) ==
    LET exact(t) == t.languageCode = lang
        english(t) == StartsWith(t.languageCode, LangEn)
    IN OrElse(Find(tracks, exact), OrElse(Find(tracks, english), 1))

\* extractTranscriptDirect and extractTranscriptInnertube of
\* transcript-backup.js, which share these statements: the exact match, the
\* English variants only when lang === 'en', then the first track
SelectTrackBackup(tracks, lang) ==
    LET exact(t) == t.languageCode = lang
        english(t) == \/ t.languageCode = LangEnUS
                      \/ t.languageCode = <<"e", "n", "-", "G", "B">>
                      \/ StartsWith(t.languageCode, LangEn)
    IN OrElse(Find(tracks, exact),
              OrElse(IF lang = LangEn THEN Find(tracks, english) ELSE 0, 1))

\* the youtube-transcript-api handler:
\* result.tracks.find(t => t.language === lang) || result.tracks[0]
SelectTrackTranscriptApi(tracks, lang) ==
    LET exact(t) == t.languageCode = lang
    IN OrElse(Find(tracks, exact), 1)

\* the functions that choose a track, by the module they are in
Selectors(m) ==
    CASE m = "transcript.v2" -> {"DataAPI", "InnertubeAPI"}
      [] m = "transcript.v1" -> {"InnertubeAPI"}
      [] m = "backup.direct" -> {"DirectFetch"}
      [] m = "backup.innertube" -> {"InnertubeBackup"}
      [] m = "backup.ytapi" -> {"TranscriptApi"}
      [] OTHER -> {}

SelectTrack(s, tracks, lang) ==
    CASE s = "DataAPI" -> SelectTrackDataAPI(tracks, lang)
      [] s = "InnertubeAPI" -> SelectTrackInnertube(tracks, lang)
      [] s \in {"DirectFetch", "InnertubeBackup"} -> SelectTrackBackup(tracks, lang)
      [] s = "TranscriptApi" -> SelectTrackTranscriptApi(tracks, lang)

\* const { videoId, lang = 'en' } = req.body
DefaultLang(lang) == IF lang = Nil THEN LangEn ELSE lang

\* a function applied to an input: the function (Nil: not applied yet), the
\* input (the lang of the request body, the caption tracks of the video, the
\* raw texts of the caption segments) and the result (the index of the
\* selected track; the language asked of the upstream and the one reported;
\* whether a transcript was returned, the transcript and the segments count)
NoApplication ==
    [name |-> Nil, lang |-> Nil, tracks |-> <<>>, texts |-> <<>>,
     selected |-> 0, requested |-> Nil, language |-> Nil,
     ok |-> FALSE, transcript |-> <<>>, segments |-> 0]

-----------------------------------------------------------------------------
(* The text of the caption segments *)

EntAmp == <<"&", "a", "m", "p", ";">>
EntLt == <<"&", "l", "t", ";">>
EntGt == <<"&", "g", "t", ";">>
EntQuot == <<"&", "q", "u", "o", "t", ";">>
EntApos == <<"&", "#", "3", "9", ";">>
EntNbsp == <<"&", "n", "b", "s", "p", ";">>

\* the least element of a non-empty set of indices
First(indices) == CHOOSE i \in indices : \A j \in indices : i <= j

\* str.replace(/pat/g, rep) for a pattern without metacharacters: the
\* leftmost match is replaced and the search goes on after it
RECURSIVE ReplaceAll(_, _, _)
ReplaceAll(str, pat, rep) ==
    LET starts == {i \in 1..(Len(str) - Len(pat) + 1) :
                        SubSeq(str, i, i + Len(pat) - 1) = pat}
    IN IF starts = {} THEN str
       ELSE SubSeq(str, 1, First(starts) - 1) \o rep
                \o ReplaceAll(SubSeq(str, First(starts) + Len(pat), Len(str)), pat, rep)

\* str.replace(/<[^>]+>/g, ''): a '<', one or more characters that are not
\* '>', and the '>' that follows them
RECURSIVE StripTags(_)
StripTags(str) ==
    LET opens == {i \in 1..Len(str) : str[i] = "<"}
        open == First(opens)
        closes == {j \in (open + 1)..Len(str) : str[j] = ">"}
    IN IF opens = {} THEN str
       ELSE IF closes # {} /\ First(closes) >= open + 2
            THEN SubSeq(str, 1, open - 1)
                    \o StripTags(SubSeq(str, First(closes) + 1, Len(str)))
            ELSE SubSeq(str, 1, open) \o StripTags(SubSeq(str, open + 1, Len(str)))

Whitespace == {" ", "\n", "\t"}

\* String.prototype.trim
Trim(str) ==
    LET inked == {i \in 1..Len(str) : str[i] \notin Whitespace}
    IN IF inked = {} THEN <<>>
       ELSE SubSeq(str, First(inked), CHOOSE i \in inked : \A j \in inked : j <= i)

\* Array.prototype.join
RECURSIVE Join(_, _)
Join(texts, sep) ==
    IF texts = <<>> THEN <<>>
    ELSE IF Len(texts) = 1 THEN texts[1]
    ELSE texts[1] \o sep \o Join(Tail(texts), sep)

\* String.prototype.includes
Includes(str, pat) ==
    \E i \in 1..(Len(str) - Len(pat) + 1) : SubSeq(str, i, i + Len(pat) - 1) = pat

Digits == {"0", "1", "2", "3", "4", "5", "6", "7", "8", "9"}

\* String.fromCharCode(parseInt(code)), for the codes of the characters of
\* the markup
FromCharCode(code) ==
    CASE code = <<"3", "4">> -> "\""
      [] code = <<"3", "8">> -> "&"
      [] code = <<"3", "9">> -> "'"
      [] code = <<"6", "0">> -> "<"
      [] code = <<"6", "2">> -> ">"

\* str.replace(/&#(\d+);/g, (_, code) => String.fromCharCode(parseInt(code)))
RECURSIVE DecodeNumeric(_)
DecodeNumeric(str) ==
    LET ends(i) == {j \in (i + 3)..Len(str) :
                        str[j] = ";" /\ \A k \in (i + 2)..(j - 1) : str[k] \in Digits}
        starts == {i \in 1..(Len(str) - 3) :
                        str[i] = "&" /\ str[i + 1] = "#" /\ ends(i) # {}}
        start == First(starts)
        end == First(ends(start))
    IN IF starts = {} THEN str
       ELSE SubSeq(str, 1, start - 1)
                \o <<FromCharCode(SubSeq(str, start + 2, end - 1))>>
                \o DecodeNumeric(SubSeq(str, end + 1, Len(str)))

\* extractWithYouTubeDataAPI: the chain of replace on match[1], and trim
DecodeDataAPI(raw) ==
    LET a == ReplaceAll(raw, EntAmp, <<"&">>)
        b == ReplaceAll(a, EntLt, <<"<">>)
        c == ReplaceAll(b, EntGt, <<">">>)
        d == ReplaceAll(c, EntQuot, <<"\"">>)
        e == ReplaceAll(d, EntApos, <<"'">>)
        f == ReplaceAll(e, EntNbsp, <<" ">>)
    IN Trim(StripTags(f))

\* extractWithInnertubeAPI, and the second loop of parseXmlCaptions
DecodeInnertube(raw) ==
    LET a == ReplaceAll(raw, EntAmp, <<"&">>)
        b == ReplaceAll(a, EntLt, <<"<">>)
        c == ReplaceAll(b, EntGt, <<">">>)
        d == ReplaceAll(c, EntApos, <<"'">>)
        e == ReplaceAll(d, EntQuot, <<"\"">>)
    IN Trim(ReplaceAll(e, <<"\n">>, <<" ">>))

\* the first loop of parseXmlCaptions
DecodeXml(raw) ==
    LET a == ReplaceAll(raw, EntAmp, <<"&">>)
        b == ReplaceAll(a, EntLt, <<"<">>)
        c == ReplaceAll(b, EntGt, <<">">>)
        d == ReplaceAll(c, EntApos, <<"'">>)
        e == ReplaceAll(d, EntQuot, <<"\"">>)
    IN Trim(ReplaceAll(DecodeNumeric(e), <<"\n">>, <<" ">>))

\* extractWithTranscriptPlus: the chain of replace on the joined texts
DecodeTranscriptPlus(joined) ==
    LET a == ReplaceAll(joined, EntAmp, <<"&">>)
        b == ReplaceAll(a, EntApos, <<"'">>)
        c == ReplaceAll(b, EntQuot, <<"\"">>)
        d == ReplaceAll(c, EntLt, <<"<">>)
    IN ReplaceAll(d, EntGt, <<">">>)

\* texts.map(F)
Map(texts, F(_)) == [i \in 1..Len(texts) |-> F(texts[i])]

\* if (text) segments.push(text)
NonEmpty(text) == text # <<>>

\* the capture of /<text[^>]*>([^<]*(?:<[^\/][^<]*)*?)<\/text>/g: an element
\* whose content has a closing tag inside is not matched at all
NoClosingTag(raw) == ~Includes(raw, <<"<", "/">>)

\* the loops over the <text> elements of the caption XML, given the contents
\* of the elements in order
ParseDataAPI(contents) == SelectSeq(Map(contents, DecodeDataAPI), NonEmpty)
ParseInnertube(contents) ==
    SelectSeq(Map(SelectSeq(contents, NoClosingTag), DecodeInnertube), NonEmpty)

\* parseXmlCaptions: the second loop runs if the first one kept nothing
parseXmlCaptions(contents) ==
    LET first == SelectSeq(Map(SelectSeq(contents, NoClosingTag), DecodeXml), NonEmpty)
    IN IF first # <<>> THEN first
       ELSE SelectSeq(Map(contents, DecodeInnertube), NonEmpty)

\* parseJson3Captions, given the text of the segs of each event
parseJson3Captions(events) == SelectSeq(Map(events, Trim), NonEmpty)

\* what an extractor makes of the segments: nothing (it throws), or a
\* transcript and a segments count
NoTranscript == [ok |-> FALSE, transcript |-> <<>>, segments |-> 0]
Transcript(text, n) == [ok |-> TRUE, transcript |-> text, segments |-> n]

\* if (transcript.length < 50) throw ...; return { transcript, segments: n }
AtLeastMin(text, n) ==
    IF Len(text) < MinTranscriptLen THEN NoTranscript ELSE Transcript(text, n)

\* if (segments.length === 0) throw ...; return { transcript, segments: n }
AtLeastOne(text, n) == IF n = 0 THEN NoTranscript ELSE Transcript(text, n)

\* the transcript and the segments count each extractor computes from the
\* texts its upstream delivered
Extract(s, texts) ==
    CASE s = "DataAPI" ->
            LET segs == ParseDataAPI(texts) IN AtLeastMin(Join(segs, <<" ">>), Len(segs))
      [] s = "TranscriptPlus" ->
            AtLeastMin(DecodeTranscriptPlus(Join(texts, <<" ">>)), Len(texts))
      [] s \in {"CaptionExtractor", "YoutubeTranscript", "CaptionOnly"} ->
            AtLeastMin(Join(texts, <<" ">>), Len(texts))
      [] s = "InnertubeAPI" ->
            LET segs == ParseInnertube(texts) IN AtLeastMin(Join(segs, <<" ">>), Len(segs))
      [] s = "DirectFetch" ->
            LET segs == parseJson3Captions(texts) IN AtLeastOne(Join(segs, <<" ">>), Len(segs))
      [] s = "InnertubeBackup" ->
            LET segs == parseXmlCaptions(texts) IN AtLeastOne(Join(segs, <<" ">>), Len(segs))
      [] s = "TranscriptApi" ->
            AtLeastOne(Join(texts, <<" ">>), Len(texts))

\* the extractors of each module
Extractors(m) ==
    CASE m = "transcript.v2" -> {"DataAPI", "TranscriptPlus", "CaptionExtractor",
                                 "YoutubeTranscript", "InnertubeAPI"}
      [] m = "transcript.v1" -> {"CaptionExtractor", "YoutubeTranscript", "InnertubeAPI"}
      [] OTHER -> {BackupStrategy(m)}

\* raw texts of caption segments: markup with entities, plain words, a text
\* as long as the floor, empty and blank texts, an entity of an entity, tags,
\* a line break
RawShow == <<"T", "o", "m", " ", "&", "a", "m", "p", ";", " ", "J", "e", "r", "r", "y", "&", "#", "3", "9", ";", "s", " ", "&", "l", "t", ";", "s", "h", "o", "w", "&", "g", "t", ";">>
TextShow == <<"T", "o", "m", " ", "&", " ", "J", "e", "r", "r", "y", "'", "s", " ", "<", "s", "h", "o", "w", ">">>
Words == <<"h", "i">>
LongText == [i \in 1..MinTranscriptLen |-> "x"]
\* '&amp;lt;', the escaped form of the text '&lt;'
RawEscaped == <<"&", "a", "m", "p", ";", "l", "t", ";">>
TextEscaped == <<"&", "l", "t", ";">>
RawTexts == {RawShow, Words, LongText, <<>>, <<" ">>, RawEscaped, <<"<", "b", ">", "x", "<", "/", "b", ">">>, <<"a", "\n", "b">>}

\* the longest list of segments a caption track has
MaxSegments == 3

TextLists == UNION {[1..n -> RawTexts] : n \in 1..MaxSegments}

\* let client = null: no instance (0), none constructed so far
NoClient == [instance |-> 0, ready |-> "none", constructed |-> 0]

\* a getClient that stores the client only once it is ready:
\* const c = new TranscriptClient(); await c.ready; client = c
ConstructUnstored(cl) ==
    [instance |-> 0, ready |-> "pending", constructed |-> cl.constructed + 1]

\* getClient, if (!client): client = new TranscriptClient(), before the await
\* of client.ready; the instances are numbered as they are constructed
Construct(cl) ==
    [instance |-> cl.constructed + 1, ready |-> "pending",
     constructed |-> cl.constructed + 1]

-----------------------------------------------------------------------------
(* Instrumentation: one record per call of a strategy (or of a backup       *)
(* extractor) made for a request: what it returned, what it pushed on the   *)
(* log, whether an exception left it.                                       *)

NewCall(s) ==
    [strategy |-> s, returned |-> FALSE, up |-> Up(Nil, 0), ret |-> Null,
     logged |-> <<>>, escaped |-> FALSE, instance |-> 0, ready |-> "none"]

Returned(call, up, ret, logged, escaped) ==
    [call EXCEPT !.returned = TRUE, !.up = up, !.ret = ret, !.logged = logged,
                 !.escaped = escaped]

Tail2(q, from) == SubSeq(q, from, Len(q))

\* the upstream responses and the strategies of the calls made for a request
UpsOf(cs) == [i \in 1..Len(cs) |-> cs[i].up]
StrategiesOf(cs) == [i \in 1..Len(cs) |-> cs[i].strategy]

\* what is remembered of the first extraction answered: its request body, the
\* upstream responses its strategies met, the strategies, the response.
\* Nothing is remembered unless the behaviour asks for it (keep).
NoEarlier ==
    [keep |-> FALSE, set |-> FALSE, body |-> Body(TRUE, Nil, Nil), ups |-> <<>>,
     strategies |-> <<>>, status |-> 0, data |-> Null]

Remember(e, r, cs, rs) ==
    IF e.keep /\ ~e.set /\ cs # <<>>
    THEN [e EXCEPT !.set = TRUE, !.body = r.body, !.ups = UpsOf(cs),
                   !.strategies = StrategiesOf(cs), !.status = rs.status,
                   !.data = rs.data]
    ELSE e

-----------------------------------------------------------------------------
(* Actions *)

Init ==
    /\ module \in Modules
    /\ extractionLog = <<>>
    /\ pc = [c \in Conns |-> "idle"]
    /\ req = [c \in Conns |-> NoRequest]
    /\ calls = [c \in Conns |-> <<>>]
    /\ resp = [c \in Conns |-> NoResponse]
    /\ served = 0
    /\ client = NoClient
    /\ fn = NoApplication
    /\ previous = NoEarlier

\* a handler that has responded returns in the same turn of the event loop:
\* no other event of the process is taken before it has
Settled == \A d \in Conns : pc[d] # "responded"

\* a request arrives on connection c and the handler is called; when requests
\* are handled one after another, only once no other handler is at an await
Receive(c, sequential, method, body) ==
    /\ pc[c] = "idle"
    /\ Settled
    /\ served < MaxRequests
    /\ sequential => \A d \in Conns : pc[d] = "idle"
    /\ served' = served + 1
    /\ req' = [req EXCEPT ![c] = Request(served + 1, method, body)]

\* a handler that returns without sending anything
ReturnSilently(c, r) ==
    /\ pc' = [pc EXCEPT ![c] = "responded"]
    /\ UNCHANGED resp

\* res.status(...).json(...) or .end(), followed by the handler's return
Respond(c, r) ==
    /\ pc' = [pc EXCEPT ![c] = "responded"]
    /\ resp' = [resp EXCEPT ![c] = [r EXCEPT !.sent = resp[c].sent + 1]]

\* a handler that destructures req.body before it looks at the method
DestructureFirst(method, body) ==
    IF body.absent THEN "no_body"
    ELSE IF method = "OPTIONS" THEN "options"
    ELSE IF method # "POST" THEN "not_allowed"
    ELSE IF body.videoId \in {Nil, ""} THEN "missing_videoId"
    ELSE "extract"

\* the branch of the handler a request takes: the tests on req.method come
\* first and return; req.body is destructured after them, inside the try
Dispatch(method, body) ==
    IF method = "OPTIONS" THEN "options"
    ELSE IF method # "POST" THEN "not_allowed"
    ELSE IF body.absent THEN "no_body"
    ELSE IF body.videoId \in {Nil, ""} THEN "missing_videoId"
    ELSE "extract"

Requests(branch) ==
    {r \in [method : Methods, body : Bodies] : Dispatch(r.method, r.body) = branch}

\* if (req.method === 'OPTIONS') { ...; res.status(200).end(); return; }
HandleOptions(c, sequential) ==
    \E r \in Requests("options") :
        /\ Receive(c, sequential, r.method, r.body)
        /\ Respond(c, RespondOptions)
        /\ UNCHANGED <<fn, previous, client, module, extractionLog, calls>>

\* if (req.method !== 'POST') { ...; res.status(405).json(...); return; }
HandleNotAllowed(c, sequential) ==
    \E r \in Requests("not_allowed") :
        /\ Receive(c, sequential, r.method, r.body)
        /\ Respond(c, RespondNotAllowed(module))
        /\ UNCHANGED <<fn, previous, client, module, extractionLog, calls>>

\* POST with no body: the destructuring of req.body throws inside the try
HandleNoBody(c, sequential) ==
    \E r \in Requests("no_body") :
        /\ Receive(c, sequential, r.method, r.body)
        /\ Respond(c, RespondFailure(module, ErrorOf(DestructureError), extractionLog))
        /\ UNCHANGED <<fn, previous, client, module, extractionLog, calls>>

\* if (!videoId) { ...; res.status(400).json(...); return; }
HandleMissingVideoId(c, sequential) ==
    \E r \in Requests("missing_videoId") :
        /\ Receive(c, sequential, r.method, r.body)
        /\ Respond(c, RespondMissingVideoId(module))
        /\ UNCHANGED <<fn, previous, client, module, extractionLog, calls>>

\* POST with a videoId: the handler runs up to its first await.  In
\* transcript.js that is extractTranscript clearing the log and calling its
\* first strategy; in transcript-backup.js the extractor is called.
HandleExtract(c, sequential) ==
    \E r \in Requests("extract") :
        /\ Receive(c, sequential, r.method, r.body)
        /\ CASE IsPrimary(module) ->
                /\ extractionLog' = ClearLog(extractionLog)
                /\ calls' = [calls EXCEPT ![c] = <<NewCall(Chain(module, r.body.apiKey)[1])>>]
                /\ pc' = [pc EXCEPT ![c] = "await"]
                /\ UNCHANGED client
             [] module = "backup.ytapi" /\ client.instance = 0 ->
                /\ client' = Construct(client)
                /\ calls' = [calls EXCEPT ![c] =
                        <<[NewCall(BackupStrategy(module)) EXCEPT
                                !.instance = client.constructed + 1]>>]
                /\ pc' = [pc EXCEPT ![c] = "ready"]
                /\ UNCHANGED extractionLog
             [] module = "backup.ytapi" /\ client.instance # 0 ->
                /\ calls' = [calls EXCEPT ![c] =
                        <<[NewCall(BackupStrategy(module)) EXCEPT
                                !.instance = client.instance,
                                !.ready = client.ready]>>]
                /\ pc' = [pc EXCEPT ![c] = "await"]
                /\ UNCHANGED <<extractionLog, client>>
             [] OTHER ->
                /\ calls' = [calls EXCEPT ![c] = <<NewCall(BackupStrategy(module))>>]
                /\ pc' = [pc EXCEPT ![c] = "await"]
                /\ UNCHANGED <<extractionLog, client>>
        /\ UNCHANGED <<fn, previous, module, resp>>

\* the strategy a request of transcript.js awaits comes back: it pushes its
\* attempt on the log and returns; extractTranscript returns its result, calls
\* the next strategy or throws the aggregate; the handler responds
StrategyReturns(c, full) ==
    /\ IsPrimary(module)
    /\ pc[c] = "await"
    /\ Settled
    /\ LET chain == Chain(module, req[c].body.apiKey)
           pos == Len(calls[c])
           s == calls[c][pos].strategy
       IN \E up \in Menu(full, s) :
            LET r == RunStrategy(s, extractionLog, req[c].id, req[c].body.apiKey, up)
                done == [calls[c] EXCEPT ![pos] =
                            Returned(@, up, r.ret, Tail2(r.log, Len(extractionLog) + 1),
                                     r.thrown # NoDetail)]
                step == IF r.thrown # NoDetail THEN "escape"
                        ELSE AfterStrategy(r.ret, pos, Len(chain))
            IN /\ extractionLog' = r.log
               /\ CASE step = "next" ->
                        /\ calls' = [calls EXCEPT ![c] = Append(done, NewCall(chain[pos + 1]))]
                        /\ UNCHANGED <<pc, resp>>
                    [] step = "return" ->
                        /\ calls' = [calls EXCEPT ![c] = done]
                        /\ Respond(c, RespondSuccess(module, r.ret, r.log))
                    [] step = "throw" ->
                        /\ calls' = [calls EXCEPT ![c] = done]
                        /\ Respond(c, RespondFailure(module, AllMethodsFailed(r.log), r.log))
                    [] step = "escape" ->
                        /\ calls' = [calls EXCEPT ![c] = done]
                        /\ Respond(c, RespondFailure(module, ErrorOf(r.thrown), r.log))
    /\ UNCHANGED <<fn, previous, client, module, req, served>>

\* await client.ready, in the request that constructed the client: the
\* promise resolves and the handler calls getTranscript, or it rejects and
\* the handler's catch answers 500; client keeps the instance either way
ClientReady(c) ==
    /\ pc[c] = "ready"
    /\ Settled
    /\ \/ /\ client' = [client EXCEPT !.ready = "resolved"]
          /\ pc' = [pc EXCEPT ![c] = "await"]
          /\ calls' = [calls EXCEPT ![c][1].ready = "resolved"]
          /\ UNCHANGED resp
       \/ /\ client' = [client EXCEPT !.ready = "rejected"]
          /\ calls' = [calls EXCEPT ![c] =
                  <<Returned(calls[c][1], Up("rejects", 0), Null, <<>>, TRUE)>>]
          /\ Respond(c, RespondFailure(module, ErrorOf(Detail("fetch failed", 0)),
                                       extractionLog))
    /\ UNCHANGED <<fn, previous, module, extractionLog, req, served>>

\* the extractor a request of transcript-backup.js awaits comes back and the
\* handler responds: 200 with the transcript, or 500 from its catch
BackupReturns(c) ==
    /\ ~IsPrimary(module)
    /\ pc[c] = "await"
    /\ Settled
    /\ \E up \in BackupUpstreams(module) :
            LET body == BackupExtract(module, up)
                ret == IF body.threw THEN Null ELSE Result(body.len, BackupSource(module))
            IN /\ calls' = [calls EXCEPT ![c] = <<Returned(calls[c][1], up, ret, <<>>, body.threw)>>]
               /\ IF body.threw
                  THEN Respond(c, RespondFailure(module, ErrorOf(body.err), extractionLog))
                  ELSE Respond(c, RespondSuccess(module, ret, extractionLog))
    /\ UNCHANGED <<fn, previous, client, module, extractionLog, req, served>>

\* the response has been written and the handler returns
Close(c) ==
    /\ pc[c] = "responded"
    /\ pc' = [pc EXCEPT ![c] = "idle"]
    /\ req' = [req EXCEPT ![c] = NoRequest]
    /\ calls' = [calls EXCEPT ![c] = <<>>]
    /\ resp' = [resp EXCEPT ![c] = NoResponse]
    /\ previous' = Remember(previous, req[c], calls[c], resp[c])
    /\ UNCHANGED <<fn, client, module, extractionLog, served>>

\* requests in flight at once, interleaving at their awaits
Next ==
    \E c \in Conns :
        \/ HandleOptions(c, FALSE)
        \/ HandleNotAllowed(c, FALSE)
        \/ HandleNoBody(c, FALSE)
        \/ HandleMissingVideoId(c, FALSE)
        \/ HandleExtract(c, FALSE)
        \/ StrategyReturns(c, FALSE)
        \/ ClientReady(c)
        \/ BackupReturns(c)
        \/ Close(c)

Spec == Init /\ [][Next]_vars

\* requests handled one after another, against every upstream behaviour
NextSeq ==
    \E c \in Conns :
        \/ HandleOptions(c, TRUE)
        \/ HandleNotAllowed(c, TRUE)
        \/ HandleNoBody(c, TRUE)
        \/ HandleMissingVideoId(c, TRUE)
        \/ HandleExtract(c, TRUE)
        \/ StrategyReturns(c, TRUE)
        \/ ClientReady(c)
        \/ BackupReturns(c)
        \/ Close(c)

SpecSeq == Init /\ [][NextSeq]_vars

\* requests handled one after another, each upstream either delivering a
\* transcript under the floor or one at the floor
NextFair ==
    \E c \in Conns :
        \/ HandleOptions(c, TRUE)
        \/ HandleNotAllowed(c, TRUE)
        \/ HandleNoBody(c, TRUE)
        \/ HandleMissingVideoId(c, TRUE)
        \/ HandleExtract(c, TRUE)
        \/ StrategyReturns(c, FALSE)
        \/ ClientReady(c)
        \/ BackupReturns(c)
        \/ Close(c)

\* every upstream call a handler awaits eventually returns or rejects, and a
\* handler that has responded returns
UpstreamsAnswer ==
    \A c \in Conns :
        /\ WF_vars(StrategyReturns(c, FALSE))
        /\ WF_vars(ClientReady(c))
        /\ WF_vars(BackupReturns(c))
        /\ WF_vars(Close(c))

SpecFair == Init /\ [][NextFair]_vars /\ UpstreamsAnswer

\* the primary endpoint handling requests one after another, the first
\* extraction it answers being remembered
InitRepeat ==
    /\ module \in {m \in Modules : IsPrimary(m)}
    /\ extractionLog = <<>>
    /\ pc = [c \in Conns |-> "idle"]
    /\ req = [c \in Conns |-> NoRequest]
    /\ calls = [c \in Conns |-> <<>>]
    /\ resp = [c \in Conns |-> NoResponse]
    /\ served = 0
    /\ client = NoClient
    /\ fn = NoApplication
    /\ previous = [NoEarlier EXCEPT !.keep = TRUE]

NextRepeat ==
    \E c \in Conns :
        \/ HandleOptions(c, TRUE)
        \/ HandleNotAllowed(c, TRUE)
        \/ HandleNoBody(c, TRUE)
        \/ HandleMissingVideoId(c, TRUE)
        \/ HandleExtract(c, TRUE)
        \/ StrategyReturns(c, FALSE)
        \/ Close(c)

SpecRepeat == InitRepeat /\ [][NextRepeat]_vars

\* a strategy of the deployed module chooses among the caption tracks of a
\* video, for the lang of a request
InitTracks ==
    /\ module \in Modules
    /\ extractionLog = <<>>
    /\ pc = [c \in Conns |-> "idle"]
    /\ req = [c \in Conns |-> NoRequest]
    /\ calls = [c \in Conns |-> <<>>]
    /\ resp = [c \in Conns |-> NoResponse]
    /\ served = 0
    /\ client = NoClient
    /\ previous = NoEarlier
    /\ \E lang \in {Nil, LangEn, LangFr}, tracks \in TrackLists :
            fn = [NoApplication EXCEPT !.lang = lang, !.tracks = tracks]

\* the language code of the track the upstream delivered (none: undefined)
CodeOf(tracks, k) == IF k = 0 THEN Nil ELSE tracks[k].languageCode

\* the lang argument a strategy is called with: extractTranscript and the
\* backup handlers pass lang, but extractWithYoutubeTranscript(videoId) has
\* no such parameter
LangPassed(s, lang) == IF s = "YoutubeTranscript" THEN Nil ELSE lang

\* the language a strategy asks of its upstream: the lang option of the
\* library call, hl of the player request, or the lang the tracks are
\* searched for; { lang: 'en' } in extractWithYoutubeTranscript
LangRequested(s, passed) == IF s = "YoutubeTranscript" THEN LangEn ELSE passed

\* the language field of the result, given the language code the upstream
\* delivered (of the selected track, of the first segment)
LangReported(s, passed, code) ==
    CASE s \in {"DataAPI", "TranscriptPlus", "TranscriptApi"} ->
            IF code # Nil THEN code ELSE passed
      [] s \in {"CaptionExtractor", "CaptionOnly"} -> passed
      [] s = "YoutubeTranscript" -> LangEn
      [] s = "InnertubeAPI" -> IF code # Nil THEN code ELSE LangEn
      [] s \in {"DirectFetch", "InnertubeBackup"} -> code

\* a strategy is called for a request: what it asks of the upstream, the
\* track it is given, what it reports
Called(s, k) ==
    LET passed == LangPassed(s, DefaultLang(fn.lang))
    IN [fn EXCEPT !.name = s, !.selected = k,
                  !.requested = LangRequested(s, passed),
                  !.language = LangReported(s, passed, CodeOf(fn.tracks, k))]

\* a strategy that chooses among the caption tracks itself
ChooseTrack(s) ==
    /\ fn.name = Nil
    /\ s \in Selectors(module)
    /\ fn' = Called(s, SelectTrack(s, fn.tracks, DefaultLang(fn.lang)))
    /\ UNCHANGED <<module, handlerVars>>

\* a strategy that leaves the choice to its library: the segments it gets
\* are of any of the tracks, and name their language or not
AskLibrary(s) ==
    /\ fn.name = Nil
    /\ s \in Extractors(module) \ Selectors(module)
    /\ \E k \in 0..Len(fn.tracks) : fn' = Called(s, k)
    /\ UNCHANGED <<module, handlerVars>>

NextTracks ==
    \/ \E s \in {"DataAPI", "InnertubeAPI", "DirectFetch", "InnertubeBackup", "TranscriptApi"} :
            ChooseTrack(s)
    \/ \E s \in {"TranscriptPlus", "CaptionExtractor", "YoutubeTranscript", "CaptionOnly"} :
            AskLibrary(s)

SpecTracks == InitTracks /\ [][NextTracks]_vars

\* an extractor of the deployed module makes a transcript of the segments of
\* a caption track
InitText ==
    /\ module \in Modules
    /\ extractionLog = <<>>
    /\ pc = [c \in Conns |-> "idle"]
    /\ req = [c \in Conns |-> NoRequest]
    /\ calls = [c \in Conns |-> <<>>]
    /\ resp = [c \in Conns |-> NoResponse]
    /\ served = 0
    /\ client = NoClient
    /\ previous = NoEarlier
    /\ \E texts \in TextLists : fn = [NoApplication EXCEPT !.texts = texts]

ExtractText(s) ==
    /\ fn.name = Nil
    /\ s \in Extractors(module)
    /\ LET r == Extract(s, fn.texts)
       IN fn' = [fn EXCEPT !.name = s, !.ok = r.ok, !.transcript = r.transcript,
                           !.segments = r.segments]
    /\ UNCHANGED <<module, handlerVars>>

NextText == \E s \in Strategies \cup {BackupStrategy(m) : m \in Modules \ {"transcript.v1", "transcript.v2"}} : ExtractText(s)

SpecText == InitText /\ [][NextText]_vars

-----------------------------------------------------------------------------
(* Properties *)

Responded(c) == pc[c] = "responded"

\* the request on c is a POST that carries a videoId
HasVideoId(c) ==
    /\ req[c].method = "POST"
    /\ ~req[c].body.absent
    /\ req[c].body.videoId \notin {Nil, ""}

ChainOf(c) == Chain(module, req[c].body.apiKey)

AllFailedMsg == "All extraction methods failed. Errors: "

\* the upstream behaviour a call met is one of the strategy's internal errors
InternalError(call) ==
    call.up.kind # "segments" \/ call.up.len < MinTranscriptLen

\* the attempts a request made itself, as its strategies pushed them
OwnAttempt(c, i) == calls[c][i].logged[1]

\* C1: in the primary endpoint, once a strategy called for a request has
\* returned a success, no later strategy is started for that request: the
\* successful call is the last call made (so a success of the first strategy
\* leaves exactly one call).
ChainShortCircuit ==
    \A c \in Conns :
        IsPrimary(module) =>
            \A i \in 1..Len(calls[c]) :
                (calls[c][i].returned /\ ~calls[c][i].ret.isNull) => Len(calls[c]) = i

\* C1 witness: a chain of several strategies answered 200 after exactly one call
FirstStrategySucceeded ==
    \E c \in Conns :
        /\ IsPrimary(module) /\ Responded(c) /\ resp[c].status = 200
        /\ Len(calls[c]) = 1
        /\ Len(ChainOf(c)) > 1
        /\ ~calls[c][1].ret.isNull

\* C2: no response with status 200 and success: true carries a transcript
\* shorter than 50 characters, on any endpoint; a strategy whose transcript
\* is that short returns a failure.
MinimumViability ==
    \A c \in Conns :
        /\ (Responded(c) /\ resp[c].status = 200 /\ resp[c].success = "true")
                => resp[c].data.transcriptLen >= MinTranscriptLen
        /\ \A i \in 1..Len(calls[c]) :
                (calls[c][i].returned /\ calls[c][i].up.kind = "segments"
                    /\ calls[c][i].up.len < MinTranscriptLen) => calls[c][i].ret.isNull

\* C3: a POST without a videoId (no body, an empty body, a body with other
\* fields only) is answered 400 'Missing required parameter: videoId' and no
\* strategy is called for it.
MissingVideoIdIs400 ==
    \A c \in Conns :
        (Responded(c) /\ req[c].method = "POST" /\ ~HasVideoId(c)) =>
            /\ resp[c].status = 400
            /\ resp[c].error.msg = "Missing required parameter: videoId"
            /\ calls[c] = <<>>

\* C4: when every strategy called for a request failed, the aggregate error
\* lists exactly that request's attempts: each strategy's method name and
\* failure reason, in the order of the calls, and nothing else.
FullFailureAggregation ==
    \A c \in Conns :
        (Responded(c) /\ IsPrimary(module) /\ resp[c].error.msg = AllFailedMsg) =>
            /\ Len(resp[c].error.errors) = Len(calls[c])
            /\ \A i \in 1..Len(calls[c]) :
                    /\ resp[c].error.errors[i].method = LogName(calls[c][i].strategy)
                    /\ resp[c].error.errors[i].details = OwnAttempt(c, i).details

\* C5: a request with a videoId to the primary endpoint is answered 200 with
\* the result of the first strategy, in the order of the chain, that
\* succeeded, and 500 with the aggregate error exactly when every strategy of
\* the chain was called and failed.
FirstSuccessWins ==
    \A c \in Conns :
        (Responded(c) /\ IsPrimary(module) /\ HasVideoId(c)) =>
            LET n == Len(calls[c])
                failed(i) == calls[c][i].returned /\ calls[c][i].ret.isNull
            IN /\ n \in 1..Len(ChainOf(c))
               /\ \A i \in 1..n : calls[c][i].strategy = ChainOf(c)[i]
               /\ \A i \in 1..(n - 1) : failed(i)
               /\ resp[c].status \in {200, 500}
               /\ resp[c].status = 200 <=> ~failed(n)
               /\ resp[c].status = 200 => resp[c].data = calls[c][n].ret
               /\ (resp[c].status = 500 /\ resp[c].error.msg = AllFailedMsg)
                    <=> (n = Len(ChainOf(c)) /\ \A i \in 1..n : failed(i))

\* C5 witness: a 200 given by the third strategy after two failures
ThirdStrategyWon ==
    \E c \in Conns :
        /\ IsPrimary(module) /\ Responded(c) /\ resp[c].status = 200
        /\ Len(calls[c]) = 3
        /\ calls[c][1].ret.isNull /\ calls[c][2].ret.isNull

\* C6: for requests handled one at a time, the attempts of a response of the
\* chain (a 200, or the all-failed 500) are one entry per strategy called, in
\* the order of the calls, each with its reason; on a 200 only the last entry
\* is a success, on the all-failed 500 none is.
AttemptLogInOrder ==
    \A c \in Conns :
        (Responded(c) /\ IsPrimary(module) /\ HasVideoId(c)) =>
            LET n == Len(calls[c])
                a == resp[c].attempts
            IN /\ resp[c].hasAttempts
               /\ Len(a) = n
               /\ \A i \in 1..n :
                    /\ a[i].method = LogName(calls[c][i].strategy)
                    /\ a[i].details.msg # Nil
                    /\ a[i].req = req[c].id
                    /\ Len(calls[c][i].logged) = 1 /\ a[i] = OwnAttempt(c, i)
               /\ resp[c].status = 200 =>
                    a[n].success /\ \A i \in 1..(n - 1) : ~a[i].success
               /\ resp[c].status = 500 => \A i \in 1..n : ~a[i].success

\* C6 witness: a later request answered 200 with a log of several attempts
LaterRequestLogged ==
    \E c \in Conns :
        /\ IsPrimary(module) /\ Responded(c) /\ resp[c].status = 200
        /\ req[c].id >= 2
        /\ Len(resp[c].attempts) >= 2

\* C7: with requests in flight at once, the attempts of each response are
\* exactly the attempts made for that request: none lost, none of another
\* request.
ConcurrentIsolation ==
    \A c \in Conns :
        (Responded(c) /\ resp[c].hasAttempts /\ HasVideoId(c)) =>
            /\ Len(resp[c].attempts) = Len(calls[c])
            /\ \A i \in 1..Len(calls[c]) : <<resp[c].attempts[i]>> = calls[c][i].logged

\* C8: for requests handled one after another, every entry of the attempts of
\* a response was recorded while that same request was handled.
NoCrossRequestPersistence ==
    \A c \in Conns :
        (Responded(c) /\ resp[c].hasAttempts) =>
            \A i \in 1..Len(resp[c].attempts) : resp[c].attempts[i].req = req[c].id

\* C9: a strategy of the chain that meets an internal error (a rejected
\* call, a non-2xx status, a missing or malformed field, no captions, a
\* transcript under 50 characters) lets no exception out: it returns null
\* and pushes exactly one failed attempt with the reason; the driver then
\* calls the next strategy, or after the last one raises the aggregate,
\* which is the only error extractTranscript raises.
StrategiesNeverThrow ==
    \A c \in Conns :
        IsPrimary(module) =>
            /\ \A i \in 1..Len(calls[c]) :
                    (calls[c][i].returned /\ InternalError(calls[c][i])) =>
                        /\ ~calls[c][i].escaped
                        /\ calls[c][i].ret.isNull
                        /\ Len(calls[c][i].logged) = 1
                        /\ ~OwnAttempt(c, i).success
                        /\ OwnAttempt(c, i).method = LogName(calls[c][i].strategy)
                        /\ OwnAttempt(c, i).details.msg \notin {Nil, "chars extracted"}
                        /\ calls[c][i].up.kind = "segments"
                                => OwnAttempt(c, i).details.n = calls[c][i].up.len
                        /\ i < Len(ChainOf(c)) => Len(calls[c]) > i
                        /\ i = Len(ChainOf(c)) =>
                                (Responded(c) /\ resp[c].status = 500
                                    /\ resp[c].error.msg = AllFailedMsg)
            /\ (Responded(c) /\ HasVideoId(c) /\ resp[c].status = 500)
                    => resp[c].error.msg = AllFailedMsg

\* C9 witness: a request whose five strategies met five different internal
\* errors and which was answered with the aggregate
EveryStrategyFailedInside ==
    \E c \in Conns :
        /\ IsPrimary(module) /\ Responded(c) /\ resp[c].status = 500
        /\ Len(calls[c]) = 5
        /\ calls[c][1].up.kind = "api_non2xx"
        /\ calls[c][2].up.kind = "rejects"
        /\ calls[c][3].up.kind = "no_segments"
        /\ calls[c][4].up = Up("segments", MinTranscriptLen - 1)
        /\ calls[c][5].up.kind = "no_tracks"

\* C10: every response with status 500, of the primary and of the backup
\* endpoint, carries a hint and the attempt log of the request: one entry per
\* method tried, in order.
FailureCarriesHintAndLog ==
    \A c \in Conns :
        (Responded(c) /\ resp[c].status = 500) =>
            /\ resp[c].hint # Nil
            /\ resp[c].hasAttempts
            /\ Len(resp[c].attempts) = Len(calls[c])
            /\ \A i \in 1..Len(calls[c]) : resp[c].attempts[i].req = req[c].id

\* C11: in every handler an OPTIONS request is answered 200 with no body and
\* the CORS headers that advertise 'POST, OPTIONS', and a request whose method
\* is neither POST nor OPTIONS is answered 405 with the error 'Method not
\* allowed. Use POST.'; whatever the body of the request, absent included, no
\* strategy is called for it.
MethodDispatch ==
    \A c \in Conns :
        (Responded(c) /\ req[c].method # "POST") =>
            /\ calls[c] = <<>>
            /\ req[c].method = "OPTIONS" =>
                    /\ resp[c].status = 200
                    /\ resp[c].ended
                    /\ <<"Access-Control-Allow-Methods", "POST, OPTIONS">> \in resp[c].cors
                    /\ <<"Access-Control-Allow-Origin", "*">> \in resp[c].cors
            /\ req[c].method # "OPTIONS" =>
                    /\ resp[c].status = 405
                    /\ ~resp[c].ended
                    /\ resp[c].error = ErrorOf(Detail("Method not allowed. Use POST.", 0))

\* C11 witness: an OPTIONS request with no body at all has been answered
\* while another request was at an await
PreflightWithoutBody ==
    \E c, d \in Conns :
        /\ Responded(c) /\ req[c].method = "OPTIONS" /\ req[c].body.absent
        /\ resp[c].status = 200
        /\ pc[d] = "await"

\* C12: every response of every handler, whatever the method and the outcome
\* (200, 400, 405, 500), carries Access-Control-Allow-Origin: * and with it
\* Access-Control-Allow-Headers and Access-Control-Allow-Methods.
EveryResponseCarriesCors ==
    \A c \in Conns :
        Responded(c) =>
            /\ <<"Access-Control-Allow-Origin", "*">> \in resp[c].cors
            /\ \E h \in resp[c].cors : h[1] = "Access-Control-Allow-Headers"
            /\ \E h \in resp[c].cors : h[1] = "Access-Control-Allow-Methods"

\* the track a strategy has selected, and what the policy tells to select
Selected == fn.tracks[fn.selected]
Lang == DefaultLang(fn.lang)
HasHumanExact == \E i \in 1..Len(fn.tracks) : fn.tracks[i] = Track(Lang, Nil)
HasExact == \E i \in 1..Len(fn.tracks) : fn.tracks[i].languageCode = Lang

\* C13: every strategy that chooses among tracks (the Data API strategy, the
\* Innertube strategy of the chain, the direct-fetch and the Innertube backup
\* extractors) prefers a human-authored track of the requested language:
\* when the video has one, the selected track has that language and no kind,
\* as for [{en, asr}, {en}, {fr}] and lang en.
HumanAuthoredPreferred ==
    (fn.name \in {"DataAPI", "InnertubeAPI", "DirectFetch", "InnertubeBackup"} /\ HasHumanExact)
        => Selected = Track(Lang, Nil)

\* C15: when no track has exactly the requested language, a track whose
\* language code begins with the requested language is selected before any
\* other: for lang fr and [{de}, {en-US}, {fr-CA}] the fr-CA track, not the
\* en-US one.
PrefixFallbackUsesRequestedLang ==
    (/\ fn.name \in {"DataAPI", "InnertubeAPI", "DirectFetch", "InnertubeBackup"}
     /\ ~HasExact
     /\ \E i \in 1..Len(fn.tracks) : StartsWith(fn.tracks[i].languageCode, Lang))
        => StartsWith(Selected.languageCode, Lang)

\* texts that need no normalization
PlainTexts == {Words, LongText}

\* C14: in every strategy that normalizes caption markup, a segment whose raw
\* text is 'Tom &amp; Jerry&#39;s &lt;show&gt;' normalizes to
\* "Tom & Jerry's <show>": the brackets that come out of the entities are
\* kept.  (Among segments that are otherwise plain words, so that nothing
\* else is to normalize.)
DecodedBracketsKept ==
    (/\ fn.name \in {"DataAPI", "TranscriptPlus", "InnertubeAPI", "InnertubeBackup"}
     /\ fn.ok
     /\ \A i \in 1..Len(fn.texts) : fn.texts[i] \in PlainTexts \cup {RawShow})
        => LET expected(raw) == IF raw = RawShow THEN TextShow ELSE raw
           IN fn.transcript = Join(Map(fn.texts, expected), <<" ">>)

\* C16: in every strategy a segment whose text is empty contributes nothing
\* to the transcript and is not counted: the transcript is the retained texts
\* joined by single spaces, in order, and segments is their number.  (Among
\* segments that are otherwise plain words.)
EmptySegmentsDropped ==
    (/\ fn.name # Nil
     /\ fn.ok
     /\ \A i \in 1..Len(fn.texts) : fn.texts[i] \in PlainTexts \cup {<<>>})
        => /\ fn.transcript = Join(SelectSeq(fn.texts, NonEmpty), <<" ">>)
           /\ fn.segments = Len(SelectSeq(fn.texts, NonEmpty))

\* the strategies called for the request on c before its i-th call
CalledBefore(c, i) == {calls[c][j].strategy : j \in 1..(i - 1)}
Failed(call) == call.returned /\ call.ret.isNull

ApiKeyGating ==
    \A c \in Conns :
        (module = "transcript.v2" /\ calls[c] # <<>>) =>
            LET rest == <<"TranscriptPlus", "CaptionExtractor", "YoutubeTranscript",
                          "InnertubeAPI">>
                n == Len(calls[c])
            IN IF req[c].body.apiKey = Nil
               THEN /\ \A i \in 1..n : calls[c][i].strategy = rest[i]
                    /\ \A i \in 1..n : \A k \in 1..Len(calls[c][i].logged) :
                            calls[c][i].logged[k].method # "youtube-data-api"
                    /\ Responded(c) =>
                            \A k \in 1..Len(resp[c].attempts) :
                                resp[c].attempts[k].method # "youtube-data-api"
               ELSE /\ calls[c][1].strategy = "DataAPI"
                    /\ Failed(calls[c][1]) => n >= 2
                    /\ \A i \in 2..n : calls[c][i].strategy = rest[i - 1]
                    /\ (Responded(c) /\ resp[c].status = 500) => n = 5

\* C18 witness: a request with an apiKey whose Data API strategy failed was
\* answered with the transcript of the second strategy, and the attempts of
\* the response start with the failed youtube-data-api
KeyFailedThenTranscriptPlus ==
    \E c \in Conns :
        /\ module = "transcript.v2" /\ req[c].body.apiKey = "key"
        /\ Responded(c) /\ resp[c].status = 200
        /\ Len(calls[c]) = 2
        /\ Failed(calls[c][1])
        /\ resp[c].data.source = "youtube-transcript-plus"
        /\ resp[c].attempts[1].method = "youtube-data-api"

\* C19: each strategy of the chain is called with the lang of the request
\* ('en' when the body has none) and asks its upstream for that language, and
\* the language it reports is that language or the one of the track the
\* upstream delivered, never a fixed value foreign to both.
LangReachesEveryStrategy ==
    fn.name \in Strategies =>
        /\ fn.requested = DefaultLang(fn.lang)
        /\ fn.language \in {DefaultLang(fn.lang), CodeOf(fn.tracks, fn.selected)}

\* C20: whatever the number of requests to the youtube-transcript-api backup
\* handler, one after another or interleaved, at most one TranscriptClient is
\* constructed in the process and every request uses that instance.
SingletonClient ==
    module = "backup.ytapi" =>
        /\ client.constructed <= 1
        /\ \A c \in Conns :
                calls[c] # <<>> =>
                    /\ calls[c][1].instance = 1
                    /\ calls[c][1].instance = client.instance

\* C20 witness: a second request arrived while the first one was still
\* waiting for the client it constructed to be ready, and is using that
\* client
SecondRequestSharesClient ==
    \E c, d \in Conns :
        /\ module = "backup.ytapi"
        /\ pc[c] = "ready" /\ pc[d] = "await"
        /\ client.constructed = 1
        /\ calls[d][1].instance = calls[c][1].instance

\* C21: getClient hands a client to a request only once the ready promise of
\* that client has resolved: every request that has called getTranscript got
\* a client that was ready, also a request that called getClient while
\* another one was awaiting readiness, or after readiness was rejected.
ClientReadyBeforeUse ==
    module = "backup.ytapi" =>
        \A c \in Conns :
            (calls[c] # <<>> /\ pc[c] = "await") => calls[c][1].ready = "resolved"

\* the entries of a returned attempts list that record a success
SuccessfulEntries(attempts) ==
    {i \in 1..Len(attempts) : attempts[i].success}

\* C24: in every 200 response of the primary endpoint that carries a
\* transcript (the answer to a POST) the attempts list has a successful entry, and data.source is the method name of that entry,
\* whichever strategy of the chain succeeded.
SourceAgreesWithLog ==
    \A c \in Conns :
        (IsPrimary(module) /\ Responded(c) /\ resp[c].status = 200
                /\ resp[c].success = "true") =>
            /\ SuccessfulEntries(resp[c].attempts) # {}
            /\ \A i \in SuccessfulEntries(resp[c].attempts) :
                   resp[c].attempts[i].method = resp[c].data.source

\* C25: every strategy that decodes entities decodes them once: a segment
\* whose raw text is '&amp;lt;' normalizes to the text '&lt;', not to '<'.
\* (Among segments that are otherwise plain words, so that nothing else is to
\* normalize.)
EntitiesDecodedOnce ==
    (/\ fn.name \in {"DataAPI", "TranscriptPlus", "InnertubeAPI", "InnertubeBackup"}
     /\ fn.ok
     /\ \A i \in 1..Len(fn.texts) : fn.texts[i] \in PlainTexts \cup {RawEscaped})
        => LET once(raw) == IF raw = RawEscaped THEN TextEscaped ELSE raw
           IN fn.transcript = Join(Map(fn.texts, once), <<" ">>)

\* the upstreams answered the calls of the request on c as they answered the
\* calls of the remembered extraction, as far as both asked them
SameResponses(c) ==
    \A i \in 1..Len(calls[c]) :
        i <= Len(previous.ups) => calls[c][i].up = previous.ups[i]

\* the request on c repeats the remembered extraction: it is answered, it has
\* the same videoId and apiKey, and the upstreams answered alike
Repeats(c) ==
    /\ previous.set
    /\ Responded(c)
    /\ calls[c] # <<>>
    /\ req[c].body = previous.body
    /\ SameResponses(c)

SentSoFar(c) ==
    /\ pc[c] \in {"ready", "await"} => resp[c].sent = 0
    /\ pc[c] = "responded" => resp[c].sent = 1

\* a handler finishes only after it has sent its one response
FinishesAfterResponding(c) ==
    (pc[c] # "idle" /\ pc'[c] = "idle") => (pc[c] = "responded" /\ resp[c].sent = 1)

\* C23: every handler sends exactly one response per request and then
\* finishes, on every path (OPTIONS, wrong method, missing videoId, success,
\* failure of the strategies, exception), provided every upstream call
\* returns or rejects: it never has sent two responses, it does not finish
\* without having responded, and a request received is eventually responded
\* to, after which the handler finishes.
ExactlyOneResponse ==
    /\ [](\A c \in Conns : SentSoFar(c))
    /\ [][\A c \in Conns : FinishesAfterResponding(c)]_vars
    /\ \A c \in Conns : (pc[c] \in {"ready", "await"}) ~> (pc[c] = "responded")
    /\ \A c \in Conns : (pc[c] = "responded") ~> (pc[c] = "idle")

\* C23 witness: a request that waited for two upstream calls has been sent its
\* one response, a failure
OneResponseAfterAwaits ==
    \E c \in Conns :
        /\ Responded(c)
        /\ Len(calls[c]) > 1
        /\ resp[c].sent = 1
        /\ resp[c].status = 500

====
